---- MODULE Spec2Model ----
\* Time-zone conversion and localization of python/cudf/cudf/core/tz/tz.py.
\*
\* The module-level table `tz` is loaded once and never mutated; every function
\* of tz.py is a pure function of (tz, arguments).  The model is a caller that
\* repeatedly invokes one of the functions on a column of instants and then
\* consumes the returned value.
\*
\* tz.py is written against cudf's column primitives (search_sorted, fillna,
\* iloc, astype, apply_boolean_mask, label_bins, notnull).  They are modelled
\* by what they compute at the call sites of tz.py:
\*   - search_sorted(..., "left") is a lower-bound binary search and never
\*     yields null, so the fillna(-1) that follows it changes nothing;
\*   - iloc with an integer column is a bounds-checked gather: an index equal
\*     to the length raises IndexError for the whole call;
\*   - astype of integers to timedelta64[unit] keeps the count and changes
\*     only the unit; datetime64[s] + timedelta64[unit] has resolution unit;
\*   - label_bins binary-searches the left edges and tests the right edge of
\*     the one bin it finds;
\*   - a column has no truth value of its own, so `a or b` is decided by
\*     len(a).
\* Input columns hold whole seconds and no nulls.
EXTENDS Integers, Sequences, FiniteSets, TLC

VARIABLES
    tz,       \* the transition table (tz.py:12-21), a sequence of rows
    pc,       \* "idle": no call outstanding; "returned": `ret` holds a result
    call,     \* the function last called and its arguments
    ret,      \* what the call returned or raised
    locals    \* intermediate columns of the last call (gather map, bin masks)

vars == <<tz, pc, call, ret, locals>>

-----------------------------------------------------------------------------
\* Bounds of the model.

MaxRows == 3        \* rows of the zone under study
MaxTime == 2        \* time_start ranges over 0..MaxTime (seconds)
MaxOffset == 1      \* gmt_offset ranges over -MaxOffset..MaxOffset (seconds)
MaxBatch == 1       \* instants per column passed to a call

ZoneNames == {"A", "B"}
TimeUnits == {"s", "ms"}

\* Ticks per second of a datetime64/timedelta64 resolution.
TicksPerSecond(unit) == IF unit = "s" THEN 1 ELSE 1000

\* Whole seconds from before every possible boundary to after every one.
InstantSeconds == (0 - MaxOffset - 1) .. (MaxTime + MaxOffset + 1)

-----------------------------------------------------------------------------
\* Columns.  A column is a resolution and a sequence of cells; a cell is null
\* or holds an integer (a count of ticks, an offset, an index, a flag).

Cell(v) == [null |-> FALSE, v |-> v]
NullCell == [null |-> TRUE, v |-> 0]
Column(unit, vals) == [unit |-> unit, vals |-> vals]

\* What a call hands back: a value, None, or an exception.
Ok(col) == [status |-> "ok", col |-> col]
Raise(e) == [status |-> e, col |-> Column("s", <<>>)]
None == [status |-> "None", col |-> Column("s", <<>>)]

\* Integer division truncating toward zero (a duration cast to a coarser unit).
TruncDiv(a, k) == IF a >= 0 THEN a \div k ELSE 0 - ((0 - a) \div k)

\* data.astype("datetime64[s]")
astype_seconds(data) ==
    [i \in 1..Len(data.vals) |->
        LET c == data.vals[i]
        IN IF c.null THEN NullCell ELSE Cell(TruncDiv(c.v, TicksPerSecond(data.unit)))]

\* Binary search for the first position whose element is not less than v
\* (side "left"), over positions first .. first+len-1 (0-based) of h.
RECURSIVE lower_bound(_, _, _, _)
lower_bound(h, v, first, len) ==
    IF len = 0 THEN first
    ELSE LET half == len \div 2
             mid == first + half
         IN IF h[mid + 1] < v
            THEN lower_bound(h, v, mid + 1, len - half - 1)
            ELSE lower_bound(h, v, first, half)

\* Binary search for the first position whose element is greater than v.
RECURSIVE upper_bound(_, _, _, _)
upper_bound(h, v, first, len) ==
    IF len = 0 THEN first
    ELSE LET half == len \div 2
             mid == first + half
         IN IF v < h[mid + 1]
            THEN upper_bound(h, v, first, half)
            ELSE upper_bound(h, v, mid + 1, len - half - 1)

\* cudf._lib.search.search_sorted(source, values, side): one insertion index
\* in 0..Len(haystack) per value; a null value sorts after everything.
search_sorted(haystack, values, side) ==
    [i \in 1..Len(values) |->
        LET c == values[i]
        IN IF c.null THEN Cell(Len(haystack))
           ELSE IF side = "left"
                THEN Cell(lower_bound(haystack, c.v, 0, Len(haystack)))
                ELSE Cell(upper_bound(haystack, c.v, 0, Len(haystack)))]

\* Column.fillna(value)
fillna(cells, value) ==
    [i \in 1..Len(cells) |-> LET c == cells[i] IN IF c.null THEN Cell(value) ELSE c]

\* Series.iloc[indices]: a gather of `series` (a sequence of integers).  A
\* negative index counts from the end; an index outside -n..n-1 raises.
iloc(series, indices) ==
    LET n == Len(series)
        pos(k) == IF k < 0 THEN k + n ELSE k
    IN IF \E i \in 1..Len(indices) : indices[i].v < 0 - n \/ indices[i].v >= n
       THEN Raise("IndexError")
       ELSE Ok(Column("s", [i \in 1..Len(indices) |->
                              Cell(series[pos(indices[i].v) + 1])]))

-----------------------------------------------------------------------------
\* tz.py

\* tz[tz.zone_name == zone]
get_tz_for_zone(zone) == SelectSeq(tz, LAMBDA r : r.zone_name = zone)

time_start(tz_zone) == [k \in 1..Len(tz_zone) |-> tz_zone[k].time_start]
gmt_offset(tz_zone) == [k \in 1..Len(tz_zone) |-> tz_zone[k].gmt_offset]

\* to_gmt's search keys: time_start + gmt_offset, in seconds.
to_gmt_time_starts_in_zone(tz_zone) ==
    [k \in 1..Len(tz_zone) |-> tz_zone[k].time_start + tz_zone[k].gmt_offset]

\* from_gmt's search keys: time_start.
from_gmt_time_starts_in_zone(tz_zone) == time_start(tz_zone)

\* A "left" search that reports a value past the last key as -1.
indices_wrapping(time_starts_in_zone, data) ==
    LET found == search_sorted(time_starts_in_zone, astype_seconds(data), "left")
    IN [i \in 1..Len(found) |->
          LET c == found[i]
          IN IF c.v >= Len(time_starts_in_zone) THEN Cell(0 - 1) ELSE c]

\* search_sorted([time_starts_in_zone], [data.astype("datetime64[s]")],
\*               "left").fillna(-1)
offset_indices(time_starts_in_zone, data) ==
    fillna(search_sorted(time_starts_in_zone, astype_seconds(data), "left"), 0 - 1)

\* data (+/-) gmt_offsets._column, sign = -1 for to_gmt and +1 for from_gmt.
\* The offsets are timedelta64[s]; the result keeps the resolution of data.
\* Arithmetic on a null cell is null.
apply_offsets(data, gmt_offsets, sign) ==
    Column(data.unit,
        [i \in 1..Len(data.vals) |->
            IF data.vals[i].null \/ gmt_offsets[i].null THEN NullCell
            ELSE Cell(data.vals[i].v
                      + sign * gmt_offsets[i].v * TicksPerSecond(data.unit))])

to_gmt(data, zone) ==
    LET tz_zone == get_tz_for_zone(zone)
        gmt_offsets == iloc(gmt_offset(tz_zone),
                            offset_indices(to_gmt_time_starts_in_zone(tz_zone), data))
    IN IF gmt_offsets.status # "ok" THEN gmt_offsets
       ELSE Ok(apply_offsets(data, gmt_offsets.col.vals, 0 - 1))

from_gmt(data, zone) ==
    LET tz_zone == get_tz_for_zone(zone)
        gmt_offsets == iloc(gmt_offset(tz_zone),
                            offset_indices(from_gmt_time_starts_in_zone(tz_zone), data))
    IN IF gmt_offsets.status # "ok" THEN gmt_offsets
       ELSE Ok(apply_offsets(data, gmt_offsets.col.vals, 1))

tz_convert(data, from_timezone, to_timezone) ==
    LET gmt == to_gmt(data, from_timezone)
    IN IF gmt.status # "ok" THEN gmt ELSE from_gmt(gmt.col, to_timezone)

\* label_bins(input, left_edges, left_inclusive, right_edges, right_inclusive):
\* per value, the index of the bin found by a binary search of the left edges,
\* or null when the value lies before every bin or not before that bin's right
\* edge.
label_bins(input, left_edges, left_inclusive, right_edges, right_inclusive) ==
    [i \in 1..Len(input) |->
        IF input[i].null THEN NullCell
        ELSE LET v == input[i].v
                 bound == IF left_inclusive
                          THEN upper_bound(left_edges, v, 0, Len(left_edges))
                          ELSE lower_bound(left_edges, v, 0, Len(left_edges))
             IN IF bound = 0 THEN NullCell
                ELSE IF v < right_edges[bound]
                        \/ (right_inclusive /\ v = right_edges[bound])
                     THEN Cell(bound - 1)
                     ELSE NullCell]

\* Column.notnull()
notnull(cells) == [i \in 1..Len(cells) |-> Cell(~cells[i].null)]

\* Column.apply_boolean_mask(mask)
RECURSIVE apply_boolean_mask(_, _)
apply_boolean_mask(col, mask) ==
    IF col = <<>> THEN <<>>
    ELSE (IF Head(mask) THEN <<Head(col)>> ELSE <<>>)
         \o apply_boolean_mask(Tail(col), Tail(mask))

\* gmt_offset.astype(f"timedelta64[{data._time_unit}]"): the integer becomes a
\* count of ticks of that resolution; it is not rescaled from seconds.
\* time_start is datetime64[s]; the sum has the finer resolution, `unit`.
\* time_start[1:]._column + gmt_offset[1:]._column
local_time_new_offsets(tz_zone, unit) ==
    [j \in 1..(Len(tz_zone) - 1) |->
        tz_zone[j + 1].time_start * TicksPerSecond(unit) + tz_zone[j + 1].gmt_offset]

\* time_start[1:]._column + gmt_offset[:-1]._column
local_time_old_offsets(tz_zone, unit) ==
    [j \in 1..(Len(tz_zone) - 1) |->
        tz_zone[j + 1].time_start * TicksPerSecond(unit) + tz_zone[j].gmt_offset]

\* local_time_new_offsets < local_time_old_offsets
clock_moved_backward(tz_zone, unit) ==
    [j \in 1..(Len(tz_zone) - 1) |->
        local_time_new_offsets(tz_zone, unit)[j] < local_time_old_offsets(tz_zone, unit)[j]]

\* local_time_new_offsets > local_time_old_offsets
clock_moved_forward(tz_zone, unit) ==
    [j \in 1..(Len(tz_zone) - 1) |->
        local_time_new_offsets(tz_zone, unit)[j] > local_time_old_offsets(tz_zone, unit)[j]]

\* The begin edges taken from the previous row's time_start (time_start[:-1]).
ambiguous_begin_shifted(tz_zone, unit) ==
    apply_boolean_mask(
        [j \in 1..(Len(tz_zone) - 1) |->
            tz_zone[j].time_start * TicksPerSecond(unit) + tz_zone[j + 1].gmt_offset],
        clock_moved_backward(tz_zone, unit))

ambiguous_begin(tz_zone, unit) ==
    apply_boolean_mask(local_time_new_offsets(tz_zone, unit),
                       clock_moved_backward(tz_zone, unit))

ambiguous_end(tz_zone, unit) ==
    apply_boolean_mask(local_time_old_offsets(tz_zone, unit),
                       clock_moved_backward(tz_zone, unit))

nonexistent_begin(tz_zone, unit) ==
    apply_boolean_mask(local_time_old_offsets(tz_zone, unit),
                       clock_moved_forward(tz_zone, unit))

nonexistent_end(tz_zone, unit) ==
    apply_boolean_mask(local_time_new_offsets(tz_zone, unit),
                       clock_moved_forward(tz_zone, unit))

\* label_bins(data, ambiguous_begin, True, ambiguous_end, False).notnull()
ambiguous(data, tz_zone) ==
    notnull(label_bins(data.vals, ambiguous_begin(tz_zone, data.unit), TRUE,
                       ambiguous_end(tz_zone, data.unit), FALSE))

\* label_bins(data, nonexistent_begin, True, nonexistent_end, False).notnull()
nonexistent(data, tz_zone) ==
    notnull(label_bins(data.vals, nonexistent_begin(tz_zone, data.unit), TRUE,
                       nonexistent_end(tz_zone, data.unit), FALSE))

\* `ambiguous or nonexistent` on two columns: Python's `or` yields its first
\* operand when that is truthy (a column of length > 0), else its second.
tz_localize(data, zone) ==
    LET tz_zone == get_tz_for_zone(zone)
    IN IF Len(local_time_old_offsets(tz_zone, data.unit)) = 0
       THEN None
       ELSE IF Len(ambiguous(data, tz_zone)) > 0
            THEN Ok(Column("bool", ambiguous(data, tz_zone)))
            ELSE Ok(Column("bool", nonexistent(data, tz_zone)))

-----------------------------------------------------------------------------
\* The state machine.

Rows(zone) ==
    [zone_name : {zone}, time_start : 0..MaxTime, gmt_offset : (0 - MaxOffset)..MaxOffset]

\* The rows of one zone as the table lists them: time_start strictly increasing.
ZoneTables(zone, maxRows) ==
    {t \in UNION {[1..n -> Rows(zone)] : n \in 0..maxRows} :
        \A k \in 1..(Len(t) - 1) : t[k].time_start < t[k + 1].time_start}

\* The rows of the second zone of the table, which follow those of the first.
OtherZoneRows ==
    <<[zone_name |-> "B", time_start |-> 0, gmt_offset |-> 1],
      [zone_name |-> "B", time_start |-> 2, gmt_offset |-> 0]>>

\* Columns of whole-second instants, none null.
Columns ==
    UNION {{Column(u, [i \in 1..n |-> Cell(s[i] * TicksPerSecond(u))]) :
               u \in TimeUnits, s \in [1..n -> InstantSeconds]} : n \in 0..MaxBatch}

NoCall == [op |-> "none", data |-> Column("s", <<>>), zone |-> "", to_zone |-> ""]
NoLocals == [indices |-> <<>>, ambiguous |-> <<>>, nonexistent |-> <<>>]

Init ==
    /\ tz \in {a \o OtherZoneRows : a \in ZoneTables("A", MaxRows)}
    /\ pc = "idle"
    /\ call = NoCall
    /\ ret = None
    /\ locals = NoLocals

ToGmt ==
    /\ pc = "idle"
    /\ \E data \in Columns, zone \in ZoneNames :
        /\ call' = [op |-> "to_gmt", data |-> data, zone |-> zone, to_zone |-> ""]
        /\ ret' = to_gmt(data, zone)
        /\ locals' = [NoLocals EXCEPT !.indices =
               offset_indices(to_gmt_time_starts_in_zone(get_tz_for_zone(zone)), data)]
    /\ pc' = "returned"
    /\ UNCHANGED tz

FromGmt ==
    /\ pc = "idle"
    /\ \E data \in Columns, zone \in ZoneNames :
        /\ call' = [op |-> "from_gmt", data |-> data, zone |-> zone, to_zone |-> ""]
        /\ ret' = from_gmt(data, zone)
        /\ locals' = [NoLocals EXCEPT !.indices =
               offset_indices(from_gmt_time_starts_in_zone(get_tz_for_zone(zone)), data)]
    /\ pc' = "returned"
    /\ UNCHANGED tz

TzConvert ==
    /\ pc = "idle"
    /\ \E data \in Columns, from_timezone \in ZoneNames, to_timezone \in ZoneNames :
        /\ call' = [op |-> "tz_convert", data |-> data,
                    zone |-> from_timezone, to_zone |-> to_timezone]
        /\ ret' = tz_convert(data, from_timezone, to_timezone)
    /\ locals' = NoLocals
    /\ pc' = "returned"
    /\ UNCHANGED tz

TzLocalize ==
    /\ pc = "idle"
    /\ \E data \in Columns, zone \in ZoneNames :
        /\ call' = [op |-> "tz_localize", data |-> data, zone |-> zone, to_zone |-> ""]
        /\ ret' = tz_localize(data, zone)
        /\ locals' = [NoLocals EXCEPT
               !.ambiguous = ambiguous(data, get_tz_for_zone(zone)),
               !.nonexistent = nonexistent(data, get_tz_for_zone(zone))]
    /\ pc' = "returned"
    /\ UNCHANGED tz

\* The caller consumes the result.
Return ==
    /\ pc = "returned"
    /\ pc' = "idle"
    /\ call' = NoCall
    /\ ret' = None
    /\ locals' = NoLocals
    /\ UNCHANGED tz

Next == ToGmt \/ FromGmt \/ TzConvert \/ TzLocalize \/ Return

Spec == Init /\ [][Next]_vars

NextLookup == ToGmt \/ FromGmt \/ Return

\* The offset lookups alone.
SpecLookup == Init /\ [][NextLookup]_vars

NextLocalize == TzLocalize \/ Return

\* Localization alone.
SpecLocalize == Init /\ [][NextLocalize]_vars

-----------------------------------------------------------------------------
\* Vocabulary of the properties.

Min2(a, b) == IF a <= b THEN a ELSE b
Max2(a, b) == IF a >= b THEN a ELSE b

Returned(ops) == pc = "returned" /\ call.op \in ops
CallZone == get_tz_for_zone(call.zone)
CallTicks == TicksPerSecond(call.data.unit)
Batch == 1..Len(call.data.vals)

\* The i-th instant of the call, in ticks and in whole seconds.
Instant(i) == call.data.vals[i].v
InstantSecond(i) == call.data.vals[i].v \div CallTicks

\* The boundary space of the lookup the call performs.
Boundaries ==
    IF call.op = "from_gmt" THEN from_gmt_time_starts_in_zone(CallZone)
    ELSE to_gmt_time_starts_in_zone(CallZone)

\* The greatest row k with boundary[k] <= x (1-based; 0 if there is none).
LastAtOrBefore(boundary, x) ==
    LET at == {k \in 1..Len(boundary) : boundary[k] <= x}
    IN IF at = {} THEN 0 ELSE CHOOSE k \in at : \A m \in at : m <= k

\* Every whole second of InstantSeconds, ascending, as one column.
FirstSecond == 0 - MaxOffset - 1
AllSeconds ==
    Column("s", [k \in 1..Cardinality(InstantSeconds) |-> Cell(FirstSecond + k - 1)])

\* The indices the call's own lookup locates for AllSeconds in the call's
\* boundary space; Located(x) is the one for whole second x.
LocatedAll == <<>> \o offset_indices(<<>> \o Boundaries, AllSeconds)
Located(x) == LocatedAll[x - FirstSecond + 1].v

\* The local-time boundaries of the transition into row j+1, in seconds.
NewBoundary(tz_zone, j) == tz_zone[j + 1].time_start + tz_zone[j + 1].gmt_offset
OldBoundary(tz_zone, j) == tz_zone[j + 1].time_start + tz_zone[j].gmt_offset

\* Instant t (in ticks, k ticks per second) lies in [new, old) of a backward
\* transition, resp. in [old, new) of a forward transition.
InAmbiguous(tz_zone, k, t) ==
    \E j \in 1..(Len(tz_zone) - 1) :
        /\ NewBoundary(tz_zone, j) < OldBoundary(tz_zone, j)
        /\ NewBoundary(tz_zone, j) * k <= t
        /\ t < OldBoundary(tz_zone, j) * k

InNonexistent(tz_zone, k, t) ==
    \E j \in 1..(Len(tz_zone) - 1) :
        /\ NewBoundary(tz_zone, j) > OldBoundary(tz_zone, j)
        /\ OldBoundary(tz_zone, j) * k <= t
        /\ t < NewBoundary(tz_zone, j) * k

\* tz_localize returned a mask and the mask flags the i-th instant.
Flagged(i) == ret.status = "ok" /\ ret.col.vals[i].v

\* Half-open intervals [b1, e1) and [b2, e2) share an instant.
Overlap(b1, e1, b2, e2) == Max2(b1, b2) < Min2(e1, e2)

\* Some ambiguous bin and some nonexistent bin built by tz_localize overlap.
BinsOverlap(tz_zone, unit) ==
    \E a \in 1..Len(ambiguous_begin(tz_zone, unit)),
       b \in 1..Len(nonexistent_begin(tz_zone, unit)) :
        Overlap(ambiguous_begin(tz_zone, unit)[a], ambiguous_end(tz_zone, unit)[a],
                nonexistent_begin(tz_zone, unit)[b], nonexistent_end(tz_zone, unit)[b])

\* Consecutive transitions are at least as far apart as the offsets around
\* them differ: the later local boundary of one transition is no later than
\* the earlier local boundary of the next.
WellSeparated(tz_zone) ==
    \A j \in 1..(Len(tz_zone) - 2) :
        Max2(NewBoundary(tz_zone, j), OldBoundary(tz_zone, j))
            <= Min2(NewBoundary(tz_zone, j + 1), OldBoundary(tz_zone, j + 1))

-----------------------------------------------------------------------------
\* The properties.

\* C1: for an instant at or after the zone's first boundary, to_gmt and
\* from_gmt apply the gmt_offset of the last row whose boundary is at or
\* before the instant (a boundary itself resolves to its own row, an instant
\* between two boundaries to the earlier row).
C1_OffsetOfLastBoundaryAtOrBefore ==
    Returned({"to_gmt", "from_gmt"}) =>
        \A i \in Batch :
            (Len(CallZone) >= 1 /\ InstantSecond(i) >= Boundaries[1]) =>
                LET k == LastAtOrBefore(Boundaries, InstantSecond(i))
                    sign == IF call.op = "to_gmt" THEN 0 - 1 ELSE 1
                IN /\ ret.status = "ok"
                   /\ ret.col.vals[i]
                        = Cell(Instant(i) + sign * CallZone[k].gmt_offset * CallTicks)

\* C2: for an instant strictly before the first boundary of a zone that has
\* rows, to_gmt and from_gmt return null for it and do not raise.
C2_NullBeforeFirstBoundary ==
    Returned({"to_gmt", "from_gmt"}) =>
        \A i \in Batch :
            (Len(CallZone) >= 1 /\ InstantSecond(i) < Boundaries[1]) =>
                ret.status = "ok" /\ ret.col.vals[i].null

\* C3: from_gmt(to_gmt(i, z), z) = i for every zone z that has rows and every
\* local instant i in no ambiguous and no nonexistent interval of z.
C3_RoundTrip ==
    (Returned({"tz_convert"}) /\ call.zone = call.to_zone /\ Len(CallZone) >= 1) =>
        \A i \in Batch :
            (/\ ~InAmbiguous(CallZone, CallTicks, Instant(i))
             /\ ~InNonexistent(CallZone, CallTicks, Instant(i))) =>
                ret.status = "ok" /\ ret.col.vals[i] = call.data.vals[i]

\* C4: tz_localize marks an instant as ambiguous exactly when it lies in
\* [new, old) of some transition whose new local boundary is before its old
\* one.
C4_AmbiguousIff ==
    Returned({"tz_localize"}) =>
        \A i \in Batch :
            Flagged(i) <=> InAmbiguous(CallZone, CallTicks, Instant(i))

\* C5: tz_localize marks an instant that lies in [old, new) of some forward
\* transition as nonexistent, apart from the normal instants.
C5_NonexistentMarked ==
    (Returned({"tz_localize"}) /\ Len(CallZone) >= 2) =>
        \A i \in Batch :
            InNonexistent(CallZone, CallTicks, Instant(i)) => Flagged(i)

\* C6: for a zone with fewer than two rows tz_localize returns one NORMAL
\* (unflagged) classification per instant, not a missing result.
C6_FewRowsAllNormal ==
    (Returned({"tz_localize"}) /\ Len(CallZone) < 2) =>
        /\ ret.status = "ok"
        /\ Len(ret.col.vals) = Len(call.data.vals)
        /\ \A i \in Batch : ~ret.col.vals[i].v

\* C7: for a zone with no rows to_gmt and from_gmt return one null per
\* instant and do not raise.
C7_UnknownZoneAllNull ==
    (Returned({"to_gmt", "from_gmt"}) /\ Len(CallZone) = 0) =>
        /\ ret.status = "ok"
        /\ Len(ret.col.vals) = Len(call.data.vals)
        /\ \A i \in Batch : ret.col.vals[i].null

\* C8: tz_convert(i, z, z) = i for every instant at or after the first
\* boundary of z.
C8_SameZoneIdempotent ==
    (Returned({"tz_convert"}) /\ call.zone = call.to_zone /\ Len(CallZone) >= 1) =>
        \A i \in Batch :
            InstantSecond(i) >= Boundaries[1] =>
                ret.status = "ok" /\ ret.col.vals[i] = call.data.vals[i]

\* C9: for a fixed zone and boundary space the located index never decreases
\* as the instant increases: within the batch, and against the index located
\* for every other instant.
C9_LookupMonotone ==
    Returned({"to_gmt", "from_gmt"}) =>
        /\ \A i, j \in Batch :
              Instant(i) <= Instant(j) => locals.indices[i].v <= locals.indices[j].v
        /\ LET located == LocatedAll
           IN \A i \in Batch, x \in InstantSeconds :
                 LET at_x == located[x - FirstSecond + 1].v
                 IN /\ InstantSecond(i) <= x => locals.indices[i].v <= at_x
                    /\ x <= InstantSecond(i) => at_x <= locals.indices[i].v

\* C9 witness: a lookup in a three-row zone locates a middle row for the
\* instant, a lower index for an earlier instant and a higher one for a later.
C9_Witness ==
    /\ Returned({"to_gmt"})
    /\ Len(CallZone) = 3
    /\ \E i \in Batch, x, y \in InstantSeconds :
          /\ x < InstantSecond(i) /\ InstantSecond(i) < y
          /\ Located(x) < locals.indices[i].v
          /\ locals.indices[i].v < Located(y)

\* C10 as stated: whenever time_start is strictly increasing, no ambiguous bin
\* overlaps a nonexistent bin, and no instant is in both.
C10_BinsDisjoint ==
    Returned({"tz_localize"}) =>
        /\ ~BinsOverlap(CallZone, call.data.unit)
        /\ \A i \in Batch : ~(locals.ambiguous[i].v /\ locals.nonexistent[i].v)

\* C10 amended: when moreover consecutive transitions are at least as far
\* apart as the offsets around them differ, no ambiguous bin overlaps a
\* nonexistent bin, and no instant is in both.
C10_BinsDisjointWhenSeparated ==
    (Returned({"tz_localize"}) /\ WellSeparated(CallZone)) =>
        /\ ~BinsOverlap(CallZone, call.data.unit)
        /\ \A i \in Batch : ~(locals.ambiguous[i].v /\ locals.nonexistent[i].v)

\* C10 witness: a well-separated zone with a backward and a forward
\* transition, localized at an instant inside the ambiguous bin.
C10_Witness ==
    /\ Returned({"tz_localize"})
    /\ WellSeparated(CallZone)
    /\ Len(ambiguous_begin(CallZone, call.data.unit)) >= 1
    /\ Len(nonexistent_begin(CallZone, call.data.unit)) >= 1
    /\ \E i \in Batch : locals.ambiguous[i].v /\ ~locals.nonexistent[i].v

====
